---- MODULE Spec2Model ----
(***************************************************************************)
(* A model of RRG.py (RRG-Lite): the construction of an RRG object, the    *)
(* plot operation that builds the scene (self.state), and the mouse and    *)
(* keyboard handlers that change what is visible afterwards.               *)
(*                                                                         *)
(* Alpha values are kept in tenths: 0 is hidden, 5 is the default line     *)
(* alpha 0.5, 6 is the default text alpha 0.6 and 10 is alpha 1 (Python's   *)
(* True, which the handlers pass to set_alpha and compare equal to 1).     *)
(***************************************************************************)
EXTENDS Integers, Sequences, FiniteSets, TLC

\* ---------------------------------------------------------------- bounds
NumEntries == 2      \* scene entries the interaction starts with
MaxTail    == 3      \* largest tail_count argument drawn
MaxCount   == 2      \* |highlighted_count| is kept within this bound
MaxStreak  == 5      \* consecutive CycleDate presses that are counted
MaxWatch   == 2      \* longest watchlist drawn
MaxLen     == 9      \* longest series the loader returns (the calendar is 1..MaxLen)
MaxPeriod  == 3      \* largest PERIOD drawn
ColorSpan  == 5      \* coordinates are drawn within this distance of the centre
MaxRows    == 3      \* longest raw series handed to the normaliser
MaxDate    == 3      \* the raw series' dates are 1..MaxDate

\* ------------------------------------------------------ program constants
Hidden    == 0       \* alpha=0                     (RRG.py:194)
LineAlpha == 5       \* self.line_alpha = 0.5       (RRG.py:58)
TextAlpha == 6       \* self.text_alpha = 0.6       (RRG.py:57)
Forced    == 10      \* set_alpha(1) / set_alpha(True) (RRG.py:542)
MinTail   == 2       \* max(2, tail_count)          (RRG.py:42)
Center    == 1000    \* the quadrant boundary 100, in tenths (RRG.py:351)

NoDate    == 0       \* config.get("BASE_DATE") is None (RRG.py:46); dates are >= 1

None == "None"

VARIABLES
    \* constructor arguments and configuration
    config,               \* [BENCHMARK, WINDOW, PERIOD, BASE_DATE]
    watchlist,            \* number of watchlist items (positions 0..watchlist-1)
    arg_tail_count,       \* the tail_count argument
    arg_benchmark,        \* the benchmark argument
    data,                 \* what loader.get returns for each watchlist position
    \* attributes set by __init__
    benchmark, tail_count, window, period, base_date, minimum_data_length,
    \* plot
    pc,                   \* "new", "constructed", "loop", "shown", "raised"
    error,                \* the exception that ended __init__ or plot
    fig,                  \* TRUE once plt.subplots() has created the figure
    i,                    \* index of the watchlist loop
    bm,                   \* what loader.get returned for the benchmark
    bm_closes,            \* the benchmark's normalised Close series
    \* self.state: one function per key of the entry dict, over the urls
    line, markers, annotation, dates,
    \* interaction attributes
    text_alpha_state, line_alpha_state,
    tabbable, tabindex, highlighted_count, active_date_labels,
    \* the event dispatched last, the run of CycleDate presses after a Pick, and
    \* whether the events so far are free of ClearAll ("fresh"), are such a
    \* sequence followed by one ClearAll ("cleared"), or go on after it ("after")
    last, run, phase,
    \* the picked entry and its alphas, the count and the flag as they were
    \* before the last Pick (before the first of two Picks in a row on it)
    snap,
    \* quadrant classifier: the coordinate and the colour returned for it
    coord, color,
    \* series normaliser: the raw series and what _process_ser returned for it
    ser, normal

initVars  == <<config, watchlist, arg_tail_count, arg_benchmark, data>>
selfVars  == <<benchmark, tail_count, window, period, base_date, minimum_data_length>>
plotVars  == <<pc, error, fig, i, bm, bm_closes>>
sceneVars == <<line, markers, annotation, dates>>
interVars == <<text_alpha_state, line_alpha_state, tabbable, tabindex,
               highlighted_count, active_date_labels>>
ghostVars == <<last, run, phase, snap>>
colorVars == <<coord, color>>
normVars  == <<ser, normal>>
vars == <<initVars, selfVars, plotVars, sceneVars, interVars, ghostVars, colorVars,
          normVars>>

\* The urls of self.state in dict (insertion) order: plot inserts s0, s1, ...
\* in increasing order of the watchlist position.
Urls == DOMAIN line

UrlSeq ==
    LET all == [k \in 1..(MaxWatch + NumEntries + 2) |-> k - 1]
        In(u) == u \in Urls
    IN  SelectSeq(all, In)

NoRun == [e |-> -1, dir |-> "none", k |-> 0]

NoSnap == [u |-> -1, line |-> 0, markers |-> 0, annotation |-> 0, count |-> 0,
           tabbable |-> FALSE, twice |-> FALSE]

PhaseAfter(isClear) ==
    IF phase = "fresh" THEN (IF isClear THEN "cleared" ELSE "fresh") ELSE "after"

\* ================================================================== data

\* A series is a sequence of <<date, close>> rows; dates are 1..MaxLen.  The
\* loader returns None, an empty frame, or the rows of the last n dates.
Suffix(n) == [k \in 1..n |-> <<MaxLen - n + k, k>>]

TickerLens == {0, 2, MaxLen}
BenchmarkLens == {0, MaxLen - 2, MaxLen - 1, MaxLen}

\* What loader.get returns: None, or a frame with its rows.
LoaderNone == [kind |-> "None", rows |-> << >>]
Frame(rows) == [kind |-> "frame", rows |-> rows]
NotLoaded == [kind |-> "unset", rows |-> << >>]

TickerResults == {LoaderNone} \cup {Frame(Suffix(n)) : n \in TickerLens}
BenchmarkResults == {LoaderNone} \cup {Frame(Suffix(n)) : n \in BenchmarkLens}

Dates(s) == {s[k][1] : k \in 1..Len(s)}

\* (mutant of DropDuplicated: the last row of every date is kept)
DropDuplicatedKeepLast(s) ==
    LET Last(k) == \A m \in (k + 1)..Len(s) : s[m][1] # s[k][1]
        RECURSIVE Pick(_)
        Pick(k) == IF k > Len(s) THEN << >>
                   ELSE (IF Last(k) THEN <<s[k]>> ELSE << >>) \o Pick(k + 1)
    IN  Pick(1)

\* ser.loc[~ser.index.duplicated()]: the first row of every date is kept.
DropDuplicated(s) ==
    LET First(k) == \A m \in 1..(k - 1) : s[m][1] # s[k][1]
        keep == {k \in 1..Len(s) : First(k)}
        RECURSIVE Pick(_)
        Pick(k) == IF k > Len(s) THEN << >>
                   ELSE (IF k \in keep THEN <<s[k]>> ELSE << >>) \o Pick(k + 1)
    IN  Pick(1)

HasDuplicates(s) == \E k, m \in 1..Len(s) : k < m /\ s[k][1] = s[m][1]

IsMonotonicIncreasing(s) == \A k \in 1..(Len(s) - 1) : s[k][1] <= s[k + 1][1]

\* ser.sort_index(ascending=True), a stable sort by date
SortIndex(s) ==
    LET Before(k, m) == s[k][1] < s[m][1] \/ (s[k][1] = s[m][1] /\ k < m)
        Rank(k) == Cardinality({m \in 1..Len(s) : Before(m, k)}) + 1
    IN  [r \in 1..Len(s) |-> s[CHOOSE k \in 1..Len(s) : Rank(k) = r]]

_process_ser(s) ==
    LET a == IF HasDuplicates(s) THEN DropDuplicated(s) ELSE s
    IN  IF ~IsMonotonicIncreasing(a) THEN SortIndex(a) ELSE a

NotNormalised == [done |-> FALSE, rows |-> << >>]

\* The ascending sequence of the dates in a set.
RECURSIVE Ascending(_)
Ascending(S) ==
    IF S = {} THEN << >>
    ELSE LET d == CHOOSE x \in S : \A y \in S : x <= y
         IN  <<d>> \o Ascending(S \ {d})

\* The index of _calculate_rs's result.  stock / benchmark aligns the two on
\* the union of their dates and is NaN where either is missing; a rolling
\* mean and std(ddof=1) over w rows is NaN unless all w rows are numbers and
\* w >= 2; dropna() removes those dates.  (Closes are taken to vary, so that
\* no rolling standard deviation is 0.)
RatioIndex(stock, bench, w) ==
    LET union == Ascending(Dates(stock) \cup Dates(bench))
        Both(q) == union[q] \in Dates(stock) /\ union[q] \in Dates(bench)
        Kept(q) == /\ w >= 2
                   /\ q >= w
                   /\ \A r \in (q - w + 1)..q : Both(r)
    IN  Ascending({union[q] : q \in {r \in 1..Len(union) : Kept(r)}})

\* rs_ratio.at[self.base_date] raises KeyError for a date not in the index;
\* rs_ratio.iloc[-self.period] raises IndexError beyond the length.
BaseLookup(rsr) ==
    IF base_date # NoDate
      THEN (IF \E k \in 1..Len(rsr) : rsr[k] = base_date THEN "ok" ELSE "KeyError")
      ELSE (IF period > Len(rsr) THEN "IndexError" ELSE "ok")

\* The index of _calculate_momentum's result: the rate of change has a value
\* on every date of rs_ratio, and the rolling window drops the first w - 1.
MomentumIndex(rsr, w) ==
    IF w >= 2 /\ Len(rsr) >= w THEN SubSeq(rsr, w, Len(rsr)) ELSE << >>

Min(a, b) == IF a < b THEN a ELSE b
Max(a, b) == IF a > b THEN a ELSE b

\* ========================================================== construction

\* (mutant of MinimumDataLength: the tail count is left out)
MinimumDataLengthNoTail(w, p, tc) == w * 2 + Max(w, p)

\* self.window * 2 + max(self.window, self.period) + self.tail_count
MinimumDataLength(w, p, tc) == w * 2 + Max(w, p) + tc

Unbuilt ==
    /\ benchmark = None /\ tail_count = None /\ window = None /\ period = None
    /\ base_date = None /\ minimum_data_length = None
    /\ pc = "new" /\ error = None /\ fig = FALSE /\ i = 0
    /\ bm = NotLoaded /\ bm_closes = << >>
    /\ line = << >> /\ markers = << >> /\ annotation = << >> /\ dates = << >>
    /\ text_alpha_state = None /\ line_alpha_state = None
    /\ tabbable = None /\ tabindex = None /\ highlighted_count = None
    /\ active_date_labels = None
    /\ last = "none" /\ run = NoRun /\ phase = "fresh" /\ snap = NoSnap

Windows == {1, 2}

\* Before RRG(config, watchlist, tail_count, benchmark) is called.
InitNew ==
    /\ config \in [BENCHMARK : {None, "CFG"}, WINDOW : Windows,
                   PERIOD : 1..MaxPeriod, BASE_DATE : {NoDate, MaxLen - 1}]
    /\ watchlist \in 0..MaxWatch
    /\ arg_tail_count \in 0..MaxTail
    /\ arg_benchmark \in {None, "ARG"}
    /\ data \in [0..(watchlist - 1) -> TickerResults]
    /\ Unbuilt
    /\ coord = <<0, 0>>
    /\ color = None
    /\ ser = << >>
    /\ normal = NotNormalised

__init__ ==
    /\ pc = "new"
    /\ IF arg_benchmark = None /\ config.BENCHMARK = None
         THEN /\ pc' = "raised"
              /\ error' = "ValueError: No benchmark index set"
              /\ UNCHANGED <<selfVars, sceneVars, interVars>>
         ELSE /\ benchmark' = (IF arg_benchmark # None THEN arg_benchmark
                                                       ELSE config.BENCHMARK)
              /\ tail_count' = Max(MinTail, arg_tail_count)
              /\ window' = config.WINDOW
              /\ period' = config.PERIOD
              /\ base_date' = config.BASE_DATE
              /\ minimum_data_length' =
                     MinimumDataLength(config.WINDOW, config.PERIOD, tail_count')
              /\ text_alpha_state' = 0
              /\ line_alpha_state' = 0
              /\ tabbable' = FALSE
              /\ tabindex' = 0
              /\ highlighted_count' = 0
              /\ active_date_labels' = << >>
              /\ pc' = "constructed"
              /\ UNCHANGED <<error, sceneVars>>
    /\ UNCHANGED <<initVars, fig, i, bm, bm_closes, ghostVars, colorVars, normVars>>

\* =================================================================== plot

\* "if bm is None or bm.empty"
BenchmarkMissing(b) == b.kind = "None" \/ b.rows = << >>

\* "if len(bm) < self.minimum_data_length"
BenchmarkShort(b) == Len(b.rows) < minimum_data_length

\* plot, up to the creation of the figure
plot_benchmark ==
    /\ pc = "constructed"
    /\ \E b \in BenchmarkResults :
         /\ bm' = b
         /\ IF BenchmarkMissing(b)
              THEN /\ pc' = "raised"
                   /\ error' = "ValueError: Unable to load benchmark data"
                   /\ UNCHANGED <<fig, bm_closes>>
              ELSE IF BenchmarkShort(b)
              THEN /\ pc' = "raised"
                   /\ error' = "ValueError: Benchmark data is insufficient"
                   /\ UNCHANGED <<fig, bm_closes>>
              ELSE /\ bm_closes' = _process_ser(b.rows)
                   /\ fig' = TRUE
                   /\ pc' = "loop"
                   /\ UNCHANGED error
    /\ UNCHANGED <<initVars, selfVars, i, sceneVars, interVars, ghostVars, colorVars, normVars>>

\* "if df is None or df.empty: continue"
TickerMissing(df) == df.kind = "None" \/ df.rows = << >>

\* "if min(len(rsm), len(rsr)) < self.tail_count: continue"
TailShort(rsr, rsm) == Min(Len(rsm), Len(rsr)) < tail_count

AddEntry(f, u, v) == [x \in DOMAIN f \cup {u} |-> IF x = u THEN v ELSE f[x]]

\* one date annotation for each of rsr.index[-self.tail_count:], alpha=0
NewDates == [j \in 0..(tail_count - 1) |-> Hidden]

\* One iteration of plot's loop over the watchlist.
plot_ticker ==
    /\ pc = "loop"
    /\ i < watchlist
    /\ LET df  == data[i]
           rsr == RatioIndex(_process_ser(df.rows), bm_closes, window)
           rsm == MomentumIndex(rsr, window)
       IN  IF TickerMissing(df)
             THEN /\ i' = i + 1
                  /\ UNCHANGED <<pc, error, sceneVars>>
             ELSE IF BaseLookup(rsr) # "ok"
             THEN /\ pc' = "raised"
                  /\ error' = BaseLookup(rsr)
                  /\ UNCHANGED <<i, sceneVars>>
             ELSE IF TailShort(rsr, rsm)
             THEN /\ i' = i + 1
                  /\ UNCHANGED <<pc, error, sceneVars>>
             ELSE /\ line' = AddEntry(line, i, Hidden)
                  /\ markers' = AddEntry(markers, i, Hidden)
                  /\ annotation' = AddEntry(annotation, i, Hidden)
                  /\ dates' = AddEntry(dates, i, NewDates)
                  /\ i' = i + 1
                  /\ UNCHANGED <<pc, error>>
    /\ UNCHANGED <<initVars, selfVars, fig, bm, bm_closes, interVars, ghostVars,
                   colorVars, normVars>>

\* plot, after the loop: the handlers are connected and the chart is shown.
plot_show ==
    /\ pc = "loop"
    /\ i = watchlist
    /\ pc' = "shown"
    /\ UNCHANGED <<initVars, selfVars, error, fig, i, bm, bm_closes, sceneVars,
                   interVars, ghostVars, colorVars, normVars>>

NextPlot ==
    \/ __init__
    \/ plot_benchmark
    \/ plot_ticker
    \/ plot_show

SpecPlot == InitNew /\ [][NextPlot]_vars

\* ============================================================= classifier

Leading   == "#008217"
Weakening == "#918000"
Improving == "#00749D"
Lagging   == "#E0002B"

\* (mutant of IsAbove: the boundary counts as above)
IsAtLeast(v) == v >= Center

\* "x > 100", "y > 100" (coordinates in tenths)
IsAbove(v) == v > Center

_get_color(x, y) ==
    IF IsAbove(x)
      THEN (IF IsAbove(y) THEN Leading ELSE Weakening)
      ELSE (IF IsAbove(y) THEN Improving ELSE Lagging)

InitColor ==
    /\ ser = << >>
    /\ normal = NotNormalised
    /\ coord \in ((Center - ColorSpan)..(Center + ColorSpan))
                 \X ((Center - ColorSpan)..(Center + ColorSpan))
    /\ color = None
    /\ config = [BENCHMARK |-> "CFG", WINDOW |-> 2, PERIOD |-> 1, BASE_DATE |-> NoDate]
    /\ watchlist = 0
    /\ arg_tail_count = MinTail
    /\ arg_benchmark = None
    /\ data = << >>
    /\ Unbuilt

classify ==
    /\ color = None
    /\ color' = _get_color(coord[1], coord[2])
    /\ UNCHANGED <<initVars, selfVars, plotVars, sceneVars, interVars, ghostVars, coord, normVars>>

NextColor == classify

SpecColor == InitColor /\ [][NextColor]_vars

\* ============================================================= normaliser

CloseValues == {1, 2}

RawRows == (1..MaxDate) \X CloseValues

RawSeries == UNION {[1..n -> RawRows] : n \in 0..MaxRows}

\* A raw Close series, before _process_ser is called on it.
InitNorm ==
    /\ ser \in RawSeries
    /\ normal = NotNormalised
    /\ coord = <<0, 0>>
    /\ color = None
    /\ config = [BENCHMARK |-> "CFG", WINDOW |-> 2, PERIOD |-> 1, BASE_DATE |-> NoDate]
    /\ watchlist = 0
    /\ arg_tail_count = MinTail
    /\ arg_benchmark = None
    /\ data = << >>
    /\ Unbuilt

normalise ==
    /\ normal.done = FALSE
    /\ normal' = [done |-> TRUE, rows |-> _process_ser(ser)]
    /\ UNCHANGED <<initVars, selfVars, plotVars, sceneVars, interVars, ghostVars,
                   colorVars, ser>>

NextNorm == normalise

SpecNorm == InitNorm /\ [][NextNorm]_vars

\* =========================================================== interaction

\* self.active_date_labels holds date-label objects; a label is named here
\* by its entry's url and its position in the entry's dates tuple.
InActive(act, u, j) == \E k \in 1..Len(act) : act[k] = <<u, j>>

\* (mutant of ClearedDates: the listed labels keep their alpha)
KeptDates(dts, act) == dts

\* _clear_active_date_labels: every listed label to alpha 0, then clear().
ClearedDates(dts, act) ==
    [u \in DOMAIN dts |->
        [j \in DOMAIN dts[u] |-> IF InActive(act, u, j) THEN Hidden ELSE dts[u][j]]]

\* (mutant of ClearedActive: the list is not emptied)
KeptActive(act) == act

ClearedActive(act) == << >>

\* (mutant of ToggleSkips: a toggle skips no entry)
NeverSkips(alpha) == FALSE

\* _toggle_text / _toggle_lines: "if already highlighted, skip it".
ToggleSkips(alpha) == alpha = Forced

\* (mutant of Flipped: a toggle always switches on)
FlippedOn(state, default) == default

\* alpha = self.text_alpha if self.text_alpha_state == 0 else 0
Flipped(state, default) == IF state = 0 THEN default ELSE 0

_toggle_text ==
    /\ pc = "shown"
    /\ LET alpha == Flipped(text_alpha_state, TextAlpha)
       IN  /\ annotation' = [u \in Urls |->
                                IF ToggleSkips(annotation[u]) THEN annotation[u] ELSE alpha]
           /\ text_alpha_state' = alpha
    /\ last' = "a"
    /\ phase' = PhaseAfter(FALSE)
    /\ snap' = NoSnap
    /\ run' = NoRun
    /\ UNCHANGED <<initVars, selfVars, plotVars, line, markers, dates,
                   line_alpha_state, tabbable, tabindex, highlighted_count,
                   active_date_labels, colorVars, normVars>>

_toggle_lines ==
    /\ pc = "shown"
    /\ LET alpha == Flipped(line_alpha_state, LineAlpha)
       IN  /\ line' = [u \in Urls |-> IF ToggleSkips(line[u]) THEN line[u] ELSE alpha]
           /\ line_alpha_state' = alpha
    /\ last' = "t"
    /\ phase' = PhaseAfter(FALSE)
    /\ snap' = NoSnap
    /\ run' = NoRun
    /\ UNCHANGED <<initVars, selfVars, plotVars, markers, annotation, dates,
                   text_alpha_state, tabbable, tabindex, highlighted_count,
                   active_date_labels, colorVars, normVars>>

\* (mutant of ClearTouches: only a forced tail path is reset)
ClearTouchesForced(u) == line[u] = Forced

\* _clear_all resets an entry only "if line._alpha:" (a non-zero alpha).
ClearTouches(u) == line[u] # 0

\* _clear_all resets the highlight bookkeeping only "if self.active_date_labels:".
ClearResets == active_date_labels # << >>

_clear_all ==
    /\ pc = "shown"
    /\ line' = [u \in Urls |-> IF ClearTouches(u) THEN Hidden ELSE line[u]]
    /\ markers' = [u \in Urls |-> IF ClearTouches(u) THEN Hidden ELSE markers[u]]
    /\ annotation' = [u \in Urls |->
                        IF ClearTouches(u) THEN text_alpha_state ELSE annotation[u]]
    /\ IF ClearResets
         THEN /\ dates' = ClearedDates(dates, active_date_labels)
              /\ active_date_labels' = ClearedActive(active_date_labels)
              /\ highlighted_count' = 0
              /\ tabbable' = FALSE
         ELSE UNCHANGED <<dates, active_date_labels, highlighted_count, tabbable>>
    /\ last' = "delete"
    /\ phase' = PhaseAfter(TRUE)
    /\ snap' = NoSnap
    /\ run' = NoRun
    /\ UNCHANGED <<initVars, selfVars, plotVars, text_alpha_state, line_alpha_state,
                   tabindex, colorVars, normVars>>

\* (mutant of NextTabindex: the direction of the key is ignored)
NextTabindexForward(t, step, length) == (t + 1) % length

\* self.tabindex = (self.tabindex + step) % length
NextTabindex(t, step, length) == (t + step) % length

\* step = -1 if key == "left" else 1
Step(key) == IF key = "left" THEN -1 ELSE 1

\* "if not self.tabbable: return"
CycleReturns == ~tabbable

\* (mutant of Show: the label is shown at the default text alpha)
ShowDefault(dts, u, j) == [dts EXCEPT ![u][j] = TextAlpha]

\* date_label.set_alpha(1)
Show(dts, u, j) == [dts EXCEPT ![u][j] = Forced]

\* One iteration of the loop of _cycle_dates, on the loop's running state
\* st = [tabindex, dates, active].
CycleBody(u, st, step) ==
    IF line[u] = Forced
      THEN LET length == Cardinality(DOMAIN st.dates[u])
           IN  IF st.dates[u][st.tabindex] = 0
                 THEN [tabindex |-> st.tabindex,
                       dates    |-> Show(st.dates, u, st.tabindex),
                       active   |-> Append(st.active, <<u, st.tabindex>>)]
                 ELSE LET t == NextTabindex(st.tabindex, step, length)
                      IN  [tabindex |-> t,
                           dates    |-> Show(ClearedDates(st.dates, st.active), u, t),
                           active   |-> Append(ClearedActive(st.active), <<u, t>>)]
      ELSE st

RECURSIVE CycleLoop(_, _, _)
CycleLoop(us, st, step) ==
    IF us = << >> THEN st
    ELSE CycleLoop(Tail(us), CycleBody(Head(us), st, step), step)

RunAfterCycle(key) ==
    IF run.e # -1 /\ run.dir \in {"none", key} /\ run.k < MaxStreak
      THEN [run EXCEPT !.dir = key, !.k = run.k + 1]
      ELSE NoRun

_cycle_dates(key) ==
    /\ pc = "shown"
    /\ IF CycleReturns
         THEN UNCHANGED <<tabindex, dates, active_date_labels>>
         ELSE LET st == CycleLoop(UrlSeq,
                                  [tabindex |-> tabindex, dates |-> dates,
                                   active |-> active_date_labels],
                                  Step(key))
              IN  /\ tabindex' = st.tabindex
                  /\ dates' = st.dates
                  /\ active_date_labels' = st.active
    /\ last' = key
    /\ phase' = PhaseAfter(FALSE)
    /\ snap' = NoSnap
    /\ run' = RunAfterCycle(key)
    /\ UNCHANGED <<initVars, selfVars, plotVars, line, markers, annotation,
                   text_alpha_state, line_alpha_state, tabbable, highlighted_count,
                   colorVars, normVars>>

\* line.set_alpha(line._alpha == self.line_alpha or self.line_alpha) when the
\* global state is on, line.set_alpha(line._alpha == 0 or 0) when it is off;
\* the same for the annotation with the text alpha.
PickAlpha(cur, state, default) ==
    IF state = default
      THEN (IF cur = default THEN Forced ELSE default)
      ELSE (IF cur = 0 THEN Forced ELSE 0)

\* "if markers._alpha == 0" : the entry enters highlight
PickEnters(u) == markers[u] = 0

PickCount(u) == IF PickEnters(u) THEN highlighted_count + 1 ELSE highlighted_count - 1

\* (mutant of PickTabbable: any leaving Pick clears the flag)
PickTabbableDrop(u) == PickEnters(u)

PickTabbable(u) ==
    IF PickEnters(u) THEN TRUE
    ELSE IF PickCount(u) = 0 THEN FALSE ELSE tabbable

SnapAfterPick(u) ==
    IF last = "pick" /\ snap.u = u /\ ~snap.twice
      THEN [snap EXCEPT !.twice = TRUE]
      ELSE [u |-> u, line |-> line[u], markers |-> markers[u],
            annotation |-> annotation[u], count |-> highlighted_count,
            tabbable |-> tabbable, twice |-> FALSE]

_on_pick(u) ==
    /\ pc = "shown"
    /\ PickCount(u) \in (0 - MaxCount)..MaxCount
    /\ tabindex' = 0
    /\ IF active_date_labels # << >>
         THEN /\ dates' = ClearedDates(dates, active_date_labels)
              /\ active_date_labels' = ClearedActive(active_date_labels)
         ELSE UNCHANGED <<dates, active_date_labels>>
    /\ markers' = [markers EXCEPT ![u] = IF PickEnters(u) THEN Forced ELSE Hidden]
    /\ highlighted_count' = PickCount(u)
    /\ tabbable' = PickTabbable(u)
    /\ line' = [line EXCEPT ![u] = PickAlpha(line[u], line_alpha_state, LineAlpha)]
    /\ annotation' = [annotation EXCEPT
                        ![u] = PickAlpha(annotation[u], text_alpha_state, TextAlpha)]
    /\ last' = "pick"
    /\ phase' = PhaseAfter(FALSE)
    /\ snap' = SnapAfterPick(u)
    /\ run' = IF markers'[u] = Forced /\ line'[u] = Forced
                THEN [e |-> u, dir |-> "none", k |-> 0]
                ELSE NoRun
    /\ UNCHANGED <<initVars, selfVars, plotVars, text_alpha_state, line_alpha_state,
                   colorVars, normVars>>

\* The state plot() leaves behind when every one of NumEntries watchlist
\* tickers was plotted, before the first event.
InitShown ==
    /\ config = [BENCHMARK |-> "CFG", WINDOW |-> 2, PERIOD |-> 1, BASE_DATE |-> NoDate]
    /\ watchlist = NumEntries
    /\ arg_tail_count \in 0..MaxTail
    /\ arg_benchmark = None
    /\ benchmark = "CFG"
    /\ tail_count = Max(MinTail, arg_tail_count)
    /\ window = 2
    /\ period = 1
    /\ base_date = NoDate
    /\ minimum_data_length = MinimumDataLength(2, 1, tail_count)
    /\ pc = "shown"
    /\ error = None
    /\ fig = TRUE
    /\ i = NumEntries
    /\ data = [p \in 0..(NumEntries - 1) |-> Frame(Suffix(MaxLen))]
    /\ bm = Frame(Suffix(MaxLen))
    /\ bm_closes = Suffix(MaxLen)
    /\ line = [u \in 0..(NumEntries - 1) |-> Hidden]
    /\ markers = [u \in 0..(NumEntries - 1) |-> Hidden]
    /\ annotation = [u \in 0..(NumEntries - 1) |-> Hidden]
    /\ dates = [u \in 0..(NumEntries - 1) |-> [j \in 0..(tail_count - 1) |-> Hidden]]
    /\ text_alpha_state = 0
    /\ line_alpha_state = 0
    /\ tabbable = FALSE
    /\ tabindex = 0
    /\ highlighted_count = 0
    /\ active_date_labels = << >>
    /\ last = "none"
    /\ run = NoRun
    /\ phase = "fresh"
    /\ snap = NoSnap
    /\ coord = <<0, 0>>
    /\ color = None
    /\ ser = << >>
    /\ normal = NotNormalised

\* _on_key_press dispatches one key to its handler; a pick event goes to _on_pick.
Next ==
    \/ \E u \in Urls : _on_pick(u)
    \/ _toggle_text
    \/ _toggle_lines
    \/ \E key \in {"left", "right"} : _cycle_dates(key)
    \/ _clear_all

Spec == InitShown /\ [][Next]_vars

\* ================================================================ claims

AnyHighlighted == \E u \in Urls : markers[u] # 0

VisibleDates == {<<u, j>> \in Urls \X (0..(MaxTail + 1)) :
                    j \in DOMAIN dates[u] /\ dates[u][j] # 0}

\* C1: after any sequence of Pick, ToggleText, ToggleLines and CycleDate
\* events, a ClearAll event leaves every entry's tail path and history
\* markers at alpha 0 and every entry's label at the current global text
\* alpha state.
C1_ClearAllResetsAlphas ==
    phase = "cleared" =>
        \A u \in Urls : /\ line[u] = Hidden
                        /\ markers[u] = Hidden
                        /\ annotation[u] = text_alpha_state

\* C1 witness: the first ClearAll has acted with texts and lines globally on
\* and after the cursor had been cycled away from 0 on a forced entry.
C1_Witness ==
    /\ phase = "cleared"
    /\ tabindex > 0
    /\ text_alpha_state = TextAlpha
    /\ line_alpha_state = LineAlpha

\* C2: after any sequence of Pick, ToggleText, ToggleLines and CycleDate
\* events, a ClearAll event leaves the highlight count at 0, the cursor
\* index (tabindex) at 0 and the cursorable flag (tabbable) false, whether
\* or not a date label was visible when the event arrived.
C2_ClearAllResetsCounters ==
    phase = "cleared" =>
        /\ highlighted_count = 0
        /\ tabindex = 0
        /\ tabbable = FALSE

\* C3: after a ClearAll event the active-date-label list is empty and every
\* date label of every entry is at alpha 0.
C3_ClearAllEmptiesDateLabels ==
    last = "delete" =>
        /\ active_date_labels = << >>
        /\ \A u \in Urls : \A j \in DOMAIN dates[u] : dates[u][j] = Hidden

\* C3 witness: a ClearAll has acted after the cursor had been cycled away
\* from 0 (ClearAll does not move the cursor, so a date label was showing).
C3_Witness ==
    /\ last = "delete"
    /\ tabindex > 0
    /\ active_date_labels = << >>

\* C4: after an entry with n >= 2 tail dates was highlighted by Pick (its
\* tail path at alpha 1), the k-th consecutive CycleDate(next) leaves the
\* cursor at (k-1) mod n and the k-th consecutive CycleDate(prev) at
\* (-(k-1)) mod n, with that entry's label at the cursor revealed; the
\* cursor always stays in 0..n-1; and after each such event the visible
\* date labels are exactly the label at the cursor of every entry whose
\* tail path is at alpha 1.
C4_CycleVisitsInOrder ==
    /\ \A u \in Urls : tabindex \in 0..(Cardinality(DOMAIN dates[u]) - 1)
    /\ (run.e # -1 /\ run.k >= 1) =>
          LET n == Cardinality(DOMAIN dates[run.e])
          IN  /\ n >= 2
              /\ tabindex = (IF run.dir = "right" THEN (run.k - 1) % n
                                                  ELSE (0 - (run.k - 1)) % n)
              /\ dates[run.e][tabindex] = Forced
              /\ VisibleDates = {<<u, tabindex>> : u \in {v \in Urls : line[v] = Forced}}

\* C4 witness: the cursor has wrapped around going backwards on a tail of at
\* least three dates while two entries are forced.
C4_Witness ==
    /\ run.e # -1
    /\ run.dir = "left"
    /\ run.k > tail_count
    /\ tail_count >= 3
    /\ Cardinality({u \in Urls : line[u] = Forced}) >= 2

\* C5: ToggleText leaves unchanged every label whose alpha is 1 and
\* ToggleLines every tail path whose alpha is 1; besides the global
\* text/line alpha state, a toggle changes only the other labels (tail paths).
C5_TogglesKeepForced ==
    [][ /\ (last' = "a" =>
              /\ \A u \in Urls : annotation[u] = Forced => annotation'[u] = Forced
              /\ UNCHANGED <<line, markers, dates, line_alpha_state, tabbable,
                             tabindex, highlighted_count, active_date_labels>>)
        /\ (last' = "t" =>
              /\ \A u \in Urls : line[u] = Forced => line'[u] = Forced
              /\ UNCHANGED <<annotation, markers, dates, text_alpha_state, tabbable,
                             tabindex, highlighted_count, active_date_labels>>)
      ]_vars

\* C5 witness: a toggle has acted while one entry was forced, and changed
\* another entry to the new default.
C5_Witness ==
    \/ /\ last = "a"
       /\ \E u, v \in Urls : annotation[u] = Forced /\ annotation[v] = TextAlpha
    \/ /\ last = "t"
       /\ \E u, v \in Urls : line[u] = Forced /\ line[v] = LineAlpha

\* C6: when no entry is highlighted (every history-marker alpha is 0), a
\* CycleDate event in either direction changes no tail-path, marker, label
\* or date-label alpha, nor the cursor index, nor the active-date-label list.
C6_CycleNoOpWhenNoneHighlighted ==
    [][ (last' \in {"left", "right"} /\ ~AnyHighlighted) =>
            UNCHANGED <<line, markers, annotation, dates, tabindex,
                        active_date_labels>>
      ]_vars

\* C7: plot ends in a fatal error, with no figure created and no scene
\* entry built, whenever the benchmark series is missing, empty or shorter
\* than minimum_data_length = 2*WINDOW + max(WINDOW, PERIOD) + tail_count,
\* where tail_count is the requested tail count raised to at least 2; with
\* no benchmark setting, construction itself fails.
C7_BenchmarkFailsBeforeDrawing ==
    LET noSetting == arg_benchmark = None /\ config.BENCHMARK = None
        tc  == IF arg_tail_count < 2 THEN 2 ELSE arg_tail_count
        big == IF config.WINDOW > config.PERIOD THEN config.WINDOW ELSE config.PERIOD
        need == 2 * config.WINDOW + big + tc
        fatal == /\ pc = "raised"
                 /\ fig = FALSE
                 /\ DOMAIN line = {} /\ DOMAIN markers = {}
                 /\ DOMAIN annotation = {} /\ DOMAIN dates = {}
    IN  /\ (pc # "new" /\ ~noSetting) =>
               /\ tail_count = tc
               /\ tail_count >= 2
               /\ minimum_data_length = need
        /\ (pc # "new" /\ noSetting) =>
               /\ fatal
               /\ error = "ValueError: No benchmark index set"
               /\ bm = NotLoaded
        /\ (bm.kind = "None" \/ (bm.kind = "frame" /\ Len(bm.rows) < need)) =>
               /\ fatal
               /\ error \in {"ValueError: Unable to load benchmark data",
                             "ValueError: Benchmark data is insufficient"}

\* C7 witness: plot has failed on a benchmark one observation short of the
\* minimum, with a requested tail count below 2.
C7_Witness ==
    /\ pc = "raised"
    /\ bm.kind = "frame"
    /\ Len(bm.rows) = minimum_data_length - 1
    /\ arg_tail_count < MinTail
    /\ error = "ValueError: Benchmark data is insufficient"

\* A watchlist position whose ticker loaded a non-empty series with at least
\* tail_count aligned ratio and momentum points.
ValidTicker(p) ==
    LET rsr == RatioIndex(_process_ser(data[p].rows), bm_closes, window)
        rsm == MomentumIndex(rsr, window)
    IN  /\ ~TickerMissing(data[p])
        /\ BaseLookup(rsr) = "ok"
        /\ ~TailShort(rsr, rsm)

LookupFails(p) ==
    /\ ~TickerMissing(data[p])
    /\ BaseLookup(RatioIndex(_process_ser(data[p].rows), bm_closes, window)) # "ok"

\* plot has passed the benchmark checks and has ended.
PlotEnded == pc = "shown" \/ (pc = "raised" /\ fig = TRUE)

\* C8: after plot the scene holds exactly one entry, under the id of its
\* watchlist position, for every watchlist item whose ticker loaded a
\* non-empty series with at least tail_count aligned ratio/momentum points,
\* and none for any other item; each entry has exactly tail_count date labels.
C8_SceneHoldsValidTickers ==
    PlotEnded =>
        /\ Urls = {p \in 0..(watchlist - 1) : ValidTicker(p)}
        /\ \A u \in Urls : DOMAIN dates[u] = 0..(tail_count - 1)

\* C9: a ticker whose RS-momentum base lookup fails (BASE_DATE absent from
\* its RS-ratio index, or PERIOD beyond the length of its RS-ratio series)
\* never ends the plot: the loop goes on to the remaining tickers.
C9_LookupFailureSkipsTicker ==
    \A p \in 0..(watchlist - 1) :
        (fig = TRUE /\ i = p /\ LookupFails(p)) => pc # "raised"

\* C10: the classifier returns the Leading colour iff x > 100 and y > 100,
\* Weakening iff x > 100 and y <= 100, Improving iff x <= 100 and y > 100,
\* Lagging iff x <= 100 and y <= 100; the four colours are pairwise
\* distinct, and (100, 100) is Lagging.
C10_QuadrantColors ==
    color # None =>
        LET x == coord[1]
            y == coord[2]
        IN  /\ (color = "#008217") <=> (x > Center /\ y > Center)
            /\ (color = "#918000") <=> (x > Center /\ y <= Center)
            /\ (color = "#00749D") <=> (x <= Center /\ y > Center)
            /\ (color = "#E0002B") <=> (x <= Center /\ y <= Center)
            /\ Cardinality({Leading, Weakening, Improving, Lagging}) = 4
            /\ (x = Center /\ y = Center) => color = Lagging

\* C10 witness: the point on both boundaries has been classified.
C10_Witness ==
    /\ coord = <<Center, Center>>
    /\ color = Lagging

\* C11: for every date-indexed series, with duplicate and/or unsorted dates
\* or not, the normaliser returns a series whose dates are unique and
\* strictly ascending, whose set of dates is that of the input, and in which
\* each date carries the value of its first occurrence in the input; a
\* series that is already unique and ascending is returned unchanged.
C11_NormaliserSortsAndKeepsFirst ==
    normal.done =>
        LET out == normal.rows
            FirstAt(d) == CHOOSE k \in 1..Len(ser) :
                              /\ ser[k][1] = d
                              /\ \A m \in 1..(k - 1) : ser[m][1] # d
        IN  /\ \A k \in 1..(Len(out) - 1) : out[k][1] < out[k + 1][1]
            /\ {out[k][1] : k \in 1..Len(out)} = {ser[k][1] : k \in 1..Len(ser)}
            /\ \A k \in 1..Len(out) : out[k][2] = ser[FirstAt(out[k][1])][2]
            /\ (\A k \in 1..(Len(ser) - 1) : ser[k][1] < ser[k + 1][1]) => out = ser

\* C11 witness: a series with a duplicated date (two different values) that
\* is also out of order has been normalised.
C11_Witness ==
    /\ normal.done
    /\ \E k, m \in 1..Len(ser) : k < m /\ ser[k][1] = ser[m][1] /\ ser[k][2] # ser[m][2]
    /\ \E k \in 1..(Len(ser) - 1) : ser[k][1] > ser[k + 1][1]
    /\ Len(normal.rows) = 2

\* C12: in every state reachable by Pick, ToggleText, ToggleLines, CycleDate
\* and ClearAll events, every tail-path alpha is 0, the default line alpha or
\* 1, every label alpha is 0, the default text alpha or 1, and every
\* history-marker alpha and date-label alpha is 0 or 1.
C12_AlphaValues ==
    \A u \in Urls :
        /\ line[u] \in {Hidden, LineAlpha, Forced}
        /\ annotation[u] \in {Hidden, TextAlpha, Forced}
        /\ markers[u] \in {Hidden, Forced}
        /\ \A j \in DOMAIN dates[u] : dates[u][j] \in {Hidden, Forced}

C12_Witness ==
    \E u, v \in Urls :
        /\ line[u] = LineAlpha /\ annotation[u] = TextAlpha /\ markers[u] = Hidden
        /\ line[v] = Forced /\ annotation[v] = Forced /\ markers[v] = Forced
        /\ \E j \in DOMAIN dates[v] : dates[v][j] = Forced

ActiveSet == {active_date_labels[k] : k \in 1..Len(active_date_labels)}

BatchClearEvents == {"pick", "delete", "left", "right"}

\* C13: in every reachable state the active-date-label list holds, without
\* duplicates, exactly the date labels whose alpha is non-zero; and a date
\* label goes back to alpha 0 only in a Pick, ClearAll or CycleDate step that
\* clears the whole list: every label listed before the step is hidden after
\* it unless the step listed it anew.
C13_ActiveListIsVisibleLabels ==
    /\ [](/\ ActiveSet = VisibleDates
          /\ Cardinality(ActiveSet) = Len(active_date_labels))
    /\ [][(\E u \in Urls : \E j \in DOMAIN dates[u] :
                dates[u][j] # 0 /\ dates'[u][j] = 0)
            => /\ last' \in BatchClearEvents
               /\ \A k \in 1..Len(active_date_labels) :
                     LET l == active_date_labels[k]
                     IN  \/ dates'[l[1]][l[2]] = 0
                         \/ InActive(active_date_labels', l[1], l[2])]_vars

C13_Witness ==
    /\ last \in {"left", "right"}
    /\ Len(active_date_labels) = 2
    /\ tabindex # 0
    /\ ActiveSet = VisibleDates

\* C14: in every reachable state the highlight count equals the number of
\* entries whose history markers are at alpha 1, and so lies in 0..N.
C14_CountIsNumberHighlighted ==
    /\ highlighted_count = Cardinality({u \in Urls : markers[u] = Forced})
    /\ highlighted_count \in 0..Cardinality(Urls)

\* C15: in every reachable state an entry whose history markers are at
\* alpha 1 has its tail path at alpha 1.
C15_HighlightedIsForced ==
    \A u \in Urls : markers[u] = Forced => line[u] = Forced

\* C16: two consecutive Pick events on the same entry, with no other event
\* in between, restore that entry's tail-path, history-marker and label
\* alpha, the highlight count and the cursorable flag to their values
\* before the first of the two.
C16_PickTwiceRestores ==
    (last = "pick" /\ snap.twice) =>
        /\ line[snap.u] = snap.line
        /\ markers[snap.u] = snap.markers
        /\ annotation[snap.u] = snap.annotation
        /\ highlighted_count = snap.count
        /\ tabbable = snap.tabbable

\* C17 as stated: ToggleLines flips the global line state between 0 and the
\* default line alpha and sets both the tail path and the history markers of
\* every entry that is not forced to the new global line alpha.
C17_ToggleLinesSetsPathsAndMarkers ==
    [][last' = "t" =>
        /\ line_alpha_state' = (IF line_alpha_state = 0 THEN LineAlpha ELSE 0)
        /\ \A u \in Urls :
              line[u] # Forced =>
                  /\ line'[u] = line_alpha_state'
                  /\ markers'[u] = line_alpha_state']_vars

\* C17 amended: ToggleLines flips the global line state between 0 and the
\* default line alpha, sets the tail path of every entry whose tail path is
\* not at alpha 1 to the new global line alpha and leaves the other tail
\* paths and every history marker unchanged; ToggleText does the same with
\* the global text state and the labels.
C17_ToggleLinesSetsPathsOnly ==
    [][/\ last' = "t" =>
            /\ line_alpha_state' = (IF line_alpha_state = 0 THEN LineAlpha ELSE 0)
            /\ \A u \in Urls :
                  /\ line'[u] = (IF line[u] = Forced THEN Forced ELSE line_alpha_state')
                  /\ markers'[u] = markers[u]
       /\ last' = "a" =>
            /\ text_alpha_state' = (IF text_alpha_state = 0 THEN TextAlpha ELSE 0)
            /\ \A u \in Urls :
                  annotation'[u] = (IF annotation[u] = Forced THEN Forced
                                    ELSE text_alpha_state')]_vars

C17_Witness ==
    /\ last = "t"
    /\ line_alpha_state = 0
    /\ \E u, v \in Urls :
          /\ line[u] = Hidden /\ markers[u] = Hidden
          /\ line[v] = Forced /\ markers[v] = Forced

\* C18: every Pick resets the cursor index to 0 and leaves the active list
\* empty with every date label at alpha 0; it raises the highlight count by
\* one and sets the cursorable flag when the picked entry's history markers
\* were hidden, and otherwise lowers the count by one and clears the flag
\* only if the count becomes 0; it changes no alpha of any other entry.
C18_PickBookkeeping ==
    [][last' = "pick" =>
        LET u == snap'.u
        IN  /\ tabindex' = 0
            /\ active_date_labels' = << >>
            /\ \A v \in Urls : \A j \in DOMAIN dates'[v] : dates'[v][j] = 0
            /\ IF markers[u] = 0
                 THEN /\ highlighted_count' = highlighted_count + 1
                      /\ tabbable'
                 ELSE /\ highlighted_count' = highlighted_count - 1
                      /\ tabbable' = (IF highlighted_count' = 0 THEN FALSE ELSE tabbable)
            /\ \A v \in Urls \ {u} :
                  /\ line'[v] = line[v]
                  /\ markers'[v] = markers[v]
                  /\ annotation'[v] = annotation[v]
                  /\ dates'[v] = ClearedDates(dates, active_date_labels)[v]]_vars

C18_Witness ==
    /\ last = "pick"
    /\ snap.markers = Forced
    /\ markers[snap.u] = Hidden
    /\ highlighted_count = 1
    /\ tabbable
    /\ \E v \in Urls : markers[v] = Forced /\ line[v] = Forced

\* C19: in every reachable state every label alpha is 1 or equal to the
\* global text alpha state, and every tail-path alpha is 1 or equal to the
\* global line alpha state.
C19_EntriesFollowGlobalState ==
    \A u \in Urls :
        /\ annotation[u] \in {Forced, text_alpha_state}
        /\ line[u] \in {Forced, line_alpha_state}

\* C20: in every reachable state the cursorable flag is true exactly when
\* the highlight count is greater than 0.
C20_TabbableIffCountPositive ==
    tabbable <=> highlighted_count > 0

====
